---- MODULE Spec2Model ----
(***************************************************************************)
(* The two scripts of "Algorithms/Basic 2 and 3 Qubit work":               *)
(*   "2 qubit GHZ state.py"  builds and samples a Bell circuit and then a  *)
(*                           3-qubit GHZ circuit;                          *)
(*   "3 Qubits GHZ state.py" builds and samples a 3-qubit GHZ circuit.     *)
(* Each script is a straight line of statements.  The model holds the      *)
(* statements of each script as data, keyed by source line, and runs them  *)
(* with one action per kind of statement.  The calls into the simulation   *)
(* library (gates, transpile, shots, histogram) are modelled by what the   *)
(* script's own comments say they do on a noiseless simulator.             *)
(***************************************************************************)
EXTENDS Integers, Sequences, FiniteSets, Bags, TLC

\* The shot count of a run.  Both scripts set num_shots = 1024; the model
\* runs the same statements with a small number of shots.
MaxShots == 4

VARIABLES
  script,      \* which file is run: "two_qubit" or "three_qubit"
  pc,          \* source line of the next statement, 0 after the last one
  status,      \* "running", "success" (exit 0) or "error" (uncaught exception)
  exc,         \* the uncaught exception that ended the run, "" if none
  caught,      \* exceptions caught by an except clause, in order
  circuit,     \* qc, qc_ghz
  simulator,   \* the backend handle, "" while unassigned
  num_shots,   \* 0 while unassigned
  transpiled,  \* transpiled_qc, transpiled_qc_ghz
  job,         \* job, job_ghz
  result,      \* result, result_ghz
  counts,      \* counts, counts_ghz
  figure,      \* fig, fig_ghz and matplotlib's shown state
  stdout,      \* what print() has written, in order
  trace,       \* history: the statements completed so far, in order
  access       \* history: which section of the script read or wrote which name

vars == <<script, pc, status, exc, caught, circuit, simulator, num_shots,
          transpiled, job, result, counts, figure, stdout, trace, access>>

Scripts == {"two_qubit", "three_qubit"}
\* The circuit variables of the scripts; every other per-circuit variable is
\* named after one of them.
CircuitVars == {"qc", "qc_ghz"}
\* The sections of a script: the Bell pipeline and the GHZ pipeline.
Sections == {"bell", "ghz"}

\* The names the scripts bind, per circuit variable.
VarName ==
  [qc     |-> [circuit |-> "qc", transpiled |-> "transpiled_qc", job |-> "job",
               result |-> "result", counts |-> "counts", figure |-> "fig"],
   qc_ghz |-> [circuit |-> "qc_ghz", transpiled |-> "transpiled_qc_ghz",
               job |-> "job_ghz", result |-> "result_ghz",
               counts |-> "counts_ghz", figure |-> "fig_ghz"]]

-----------------------------------------------------------------------------
(* Circuits *)

\* QuantumCircuit(num_qubits, num_classical_bits): an empty instruction list.
QuantumCircuit(nq, nc) == [num_qubits |-> nq, num_clbits |-> nc, data |-> <<>>]

NoCircuit == QuantumCircuit(0, 0)

Instruction(name, qs, cs) == [name |-> name, qubits |-> qs, clbits |-> cs]

\* Every index of the sequence s is an index below n.
InRange(s, n) == \A i \in 1..Len(s) : s[i] \in 0..(n - 1)

\* qc.h(q), qc.cx(c, t): append one gate.
AppendGate(circ, name, qs) ==
  [circ EXCEPT !.data = Append(@, Instruction(name, qs, <<>>))]

RECURSIVE MeasureEach(_, _, _, _)
MeasureEach(data, qs, cs, i) ==
  IF i > Len(qs) THEN data
  ELSE MeasureEach(Append(data, Instruction("measure", <<qs[i]>>, <<cs[i]>>)),
                   qs, cs, i + 1)

\* qc.measure(qubits, clbits): one measure instruction per pair, in list order.
AppendMeasure(circ, qs, cs) ==
  [circ EXCEPT !.data = MeasureEach(@, qs, cs, 1)]

IsMeasured(circ) == \E i \in 1..Len(circ.data) : circ.data[i].name = "measure"

-----------------------------------------------------------------------------
(* The noiseless simulator.  A state vector is kept as integer amplitudes  *)
(* over the basis states; the common factor 1/sqrt(2) per Hadamard is left *)
(* out, so the probability of b is psi[b]^2 / Norm(psi).                   *)

Basis(n) == [0..(n - 1) -> {0, 1}]

Flip(b, q) == [b EXCEPT ![q] = 1 - @]

\* All qubits start in |0>.
Ground(n) == [b \in Basis(n) |-> IF \A q \in DOMAIN b : b[q] = 0 THEN 1 ELSE 0]

\* |0> -> (|0> + |1>)/sqrt(2), |1> -> (|0> - |1>)/sqrt(2) on qubit q.
ApplyH(psi, q) ==
  [b \in DOMAIN psi |->
     IF b[q] = 0 THEN psi[b] + psi[Flip(b, q)]
                 ELSE psi[Flip(b, q)] - psi[b]]

\* The target flips where the control is 1.
ApplyCX(psi, c, t) ==
  [b \in DOMAIN psi |-> IF b[c] = 1 THEN psi[Flip(b, t)] ELSE psi[b]]

ApplyInstruction(psi, ins) ==
  IF ins.name = "h" THEN ApplyH(psi, ins.qubits[1])
  ELSE IF ins.name = "cx" THEN ApplyCX(psi, ins.qubits[1], ins.qubits[2])
  ELSE psi

RECURSIVE Evolve(_, _, _)
Evolve(psi, data, i) ==
  IF i > Len(data) THEN psi
  ELSE Evolve(ApplyInstruction(psi, data[i]), data, i + 1)

\* The state the circuit's gates prepare.
StateVector(circ) == Evolve(Ground(circ.num_qubits), circ.data, 1)

\* Unnormalised probability of basis state b.
Weight(psi, b) == psi[b] * psi[b]

RECURSIVE SumWeights(_, _)
SumWeights(psi, bs) ==
  IF bs = {} THEN 0
  ELSE LET b == CHOOSE x \in bs : TRUE
       IN Weight(psi, b) + SumWeights(psi, bs \ {b})

Norm(psi) == SumWeights(psi, DOMAIN psi)

\* The classical register after measuring basis state b: slot c holds the bit
\* of the last qubit measured into it, 0 if none was.
RECURSIVE Register(_, _, _, _)
Register(reg, data, b, i) ==
  IF i > Len(data) THEN reg
  ELSE IF data[i].name = "measure"
       THEN Register([reg EXCEPT ![data[i].clbits[1]] = b[data[i].qubits[1]]],
                     data, b, i + 1)
       ELSE Register(reg, data, b, i + 1)

\* The key of a counts dictionary: one character per classical bit, the
\* highest-numbered bit first.
Bitstring(reg, nc) == [i \in 1..nc |-> reg[nc - i]]

\* The keys one shot of the circuit can yield: the measured registers of the
\* basis states of non-zero probability.
Outcomes(circ) ==
  LET psi == StateVector(circ)
  IN { Bitstring(Register([c \in 0..(circ.num_clbits - 1) |-> 0],
                          circ.data, b, 1), circ.num_clbits) :
       b \in {x \in DOMAIN psi : Weight(psi, x) > 0} }

-----------------------------------------------------------------------------
(* The scripts as data: source line |-> statement.  next is the line of    *)
(* the statement that follows in normal control flow (0: end of file) and  *)
(* handler the first line of the except clause guarding it (0: none).      *)

Statement(pipe, op, var, what, qs, cs, n, next, handler) ==
  [pipe |-> pipe, op |-> op, var |-> var, what |-> what, qs |-> qs, cs |-> cs,
   n |-> n, next |-> next, handler |-> handler]

\* A call that takes no literal argument.
Call(pipe, op, var, next, handler) ==
  Statement(pipe, op, var, "", <<>>, <<>>, 0, next, handler)

\* print(...) of the thing named by what.
PrintCall(pipe, what, var, next, handler) ==
  Statement(pipe, "print", var, what, <<>>, <<>>, 0, next, handler)

\* A gate or measurement on literal qubit and classical-bit indices.
Gate(pipe, op, var, qs, cs, next) ==
  Statement(pipe, op, var, "", qs, cs, 0, next, 0)

\* An assignment of a literal number.
Literal(pipe, op, var, n, next) ==
  Statement(pipe, op, var, "", <<>>, <<>>, n, next, 0)

TwoQubitSource ==
     (20 :> Literal("bell", "new", "qc", 2, 26))
  @@ (26 :> Gate("bell", "h", "qc", <<0>>, <<>>, 36))
  @@ (36 :> Gate("bell", "cx", "qc", <<0, 1>>, <<>>, 42))
  @@ (42 :> Gate("bell", "measure", "qc", <<0, 1>>, <<0, 1>>, 47))
  @@ (47 :> Call("bell", "get_backend", "qc", 50, 0))
  @@ (50 :> Call("bell", "transpile", "qc", 55, 0))
  @@ (55 :> Literal("bell", "assign_shots", "qc", MaxShots, 56))
  @@ (56 :> Call("bell", "run", "qc", 59, 0))
  @@ (59 :> Call("bell", "result", "qc", 62, 0))
  @@ (62 :> Call("bell", "get_counts", "qc", 67, 0))
  @@ (67 :> PrintCall("bell", "diagram_header", "qc", 68, 0))
  @@ (68 :> PrintCall("bell", "diagram", "qc", 71, 0))
  @@ (71 :> PrintCall("bell", "counts_header", "qc", 72, 0))
  @@ (72 :> PrintCall("bell", "counts", "qc", 77, 0))
  @@ (77 :> Call("bell", "plot_histogram", "qc", 78, 84))
  @@ (78 :> Call("bell", "tight_layout", "qc", 79, 84))
  @@ (79 :> Call("bell", "show", "qc", 80, 84))
  @@ (80 :> PrintCall("bell", "success", "qc", 89, 84))
  @@ (84 :> PrintCall("bell", "warning", "qc", 85, 0))
  @@ (85 :> PrintCall("bell", "hint", "qc", 86, 0))
  @@ (86 :> PrintCall("bell", "hint", "qc", 89, 0))
  @@ (89 :> PrintCall("ghz", "banner", "qc_ghz", 90, 0))
  @@ (90 :> Literal("ghz", "new", "qc_ghz", 3, 91))
  @@ (91 :> Gate("ghz", "h", "qc_ghz", <<0>>, <<>>, 92))
  @@ (92 :> Gate("ghz", "cx", "qc_ghz", <<0, 1>>, <<>>, 93))
  @@ (93 :> Gate("ghz", "cx", "qc_ghz", <<0, 2>>, <<>>, 94))
  @@ (94 :> Gate("ghz", "measure", "qc_ghz", <<0, 1, 2>>, <<0, 1, 2>>, 96))
  @@ (96 :> Call("ghz", "transpile", "qc_ghz", 97, 0))
  @@ (97 :> Call("ghz", "run", "qc_ghz", 98, 0))
  @@ (98 :> Call("ghz", "result", "qc_ghz", 99, 0))
  @@ (99 :> Call("ghz", "get_counts", "qc_ghz", 101, 0))
  @@ (101 :> PrintCall("ghz", "diagram_header", "qc_ghz", 102, 0))
  @@ (102 :> PrintCall("ghz", "diagram", "qc_ghz", 103, 0))
  @@ (103 :> PrintCall("ghz", "counts_header", "qc_ghz", 104, 0))
  @@ (104 :> PrintCall("ghz", "counts", "qc_ghz", 107, 0))
  @@ (107 :> Call("ghz", "plot_histogram", "qc_ghz", 108, 113))
  @@ (108 :> Call("ghz", "tight_layout", "qc_ghz", 109, 113))
  @@ (109 :> Call("ghz", "show", "qc_ghz", 0, 113))
  @@ (113 :> PrintCall("ghz", "warning", "qc_ghz", 0, 0))

ThreeQubitSource ==
     (23 :> Call("ghz", "get_backend", "qc_ghz", 30, 0))
  @@ (30 :> Literal("ghz", "assign_shots", "qc_ghz", MaxShots, 37))
  @@ (37 :> Literal("ghz", "new", "qc_ghz", 3, 43))
  @@ (43 :> Gate("ghz", "h", "qc_ghz", <<0>>, <<>>, 52))
  @@ (52 :> Gate("ghz", "cx", "qc_ghz", <<0, 1>>, <<>>, 58))
  @@ (58 :> Gate("ghz", "cx", "qc_ghz", <<0, 2>>, <<>>, 64))
  @@ (64 :> Gate("ghz", "measure", "qc_ghz", <<0, 1, 2>>, <<0, 1, 2>>, 68))
  @@ (68 :> Call("ghz", "transpile", "qc_ghz", 71, 0))
  @@ (71 :> Call("ghz", "run", "qc_ghz", 74, 0))
  @@ (74 :> Call("ghz", "result", "qc_ghz", 79, 0))
  @@ (79 :> Call("ghz", "get_counts", "qc_ghz", 84, 0))
  @@ (84 :> PrintCall("ghz", "diagram_header", "qc_ghz", 85, 0))
  @@ (85 :> PrintCall("ghz", "diagram", "qc_ghz", 88, 0))
  @@ (88 :> PrintCall("ghz", "counts_header", "qc_ghz", 89, 0))
  @@ (89 :> PrintCall("ghz", "counts", "qc_ghz", 95, 0))
  @@ (95 :> Call("ghz", "plot_histogram", "qc_ghz", 96, 103))
  @@ (96 :> Call("ghz", "tight_layout", "qc_ghz", 97, 103))
  @@ (97 :> Call("ghz", "show", "qc_ghz", 98, 103))
  @@ (98 :> PrintCall("ghz", "success", "qc_ghz", 0, 103))
  @@ (103 :> PrintCall("ghz", "warning", "qc_ghz", 104, 0))
  @@ (104 :> PrintCall("ghz", "hint", "qc_ghz", 105, 0))
  @@ (105 :> PrintCall("ghz", "hint", "qc_ghz", 0, 0))

\* Variants of the scripts, each with one statement changed.

\* The last CNOT chained from qubit 1 instead of fanned out from qubit 0.
ProgramChainedCX(s) ==
  IF s = "two_qubit"
  THEN [TwoQubitSource EXCEPT ![93] = Gate("ghz", "cx", "qc_ghz", <<1, 2>>, <<>>, 94)]
  ELSE [ThreeQubitSource EXCEPT ![58] = Gate("ghz", "cx", "qc_ghz", <<1, 2>>, <<>>, 64)]

\* The classical bits listed in reverse in measure(...).
ProgramMeasureReversed(s) ==
  IF s = "two_qubit"
  THEN [TwoQubitSource EXCEPT
          ![42] = Gate("bell", "measure", "qc", <<0, 1>>, <<1, 0>>, 47)]
  ELSE [ThreeQubitSource EXCEPT
          ![64] = Gate("ghz", "measure", "qc_ghz", <<0, 1, 2>>, <<2, 1, 0>>, 68)]

\* Control and target of a CNOT swapped.
ProgramSwappedCX(s) ==
  IF s = "two_qubit"
  THEN [TwoQubitSource EXCEPT ![36] = Gate("bell", "cx", "qc", <<1, 0>>, <<>>, 42)]
  ELSE [ThreeQubitSource EXCEPT ![58] = Gate("ghz", "cx", "qc_ghz", <<2, 0>>, <<>>, 64)]

\* The Hadamard applied twice.
ProgramDoubleH(s) ==
  IF s = "two_qubit"
  THEN [TwoQubitSource EXCEPT ![26] = Gate("bell", "h", "qc", <<0>>, <<>>, 36),
                              ![36] = Gate("bell", "h", "qc", <<0>>, <<>>, 42)]
  ELSE [ThreeQubitSource EXCEPT ![52] = Gate("ghz", "h", "qc_ghz", <<0>>, <<>>, 58)]

\* The circuit compiled before its measurements are appended.
ProgramTranspileEarly(s) ==
  IF s = "two_qubit"
  THEN [TwoQubitSource EXCEPT
          ![94] = Call("ghz", "transpile", "qc_ghz", 96, 0),
          ![96] = Gate("ghz", "measure", "qc_ghz", <<0, 1, 2>>, <<0, 1, 2>>, 97)]
  ELSE [ThreeQubitSource EXCEPT
          ![64] = Call("ghz", "transpile", "qc_ghz", 68, 0),
          ![68] = Gate("ghz", "measure", "qc_ghz", <<0, 1, 2>>, <<0, 1, 2>>, 71)]

\* The statements of the file that is run.
Program(s) == IF s = "two_qubit" THEN TwoQubitSource ELSE ThreeQubitSource

\* The first statement of a file.
FirstLine(s) == IF s = "two_qubit" THEN 20 ELSE 23

-----------------------------------------------------------------------------
(* Running a script *)

data == <<circuit, simulator, num_shots, transpiled, job, result, counts,
          figure, stdout>>

NoJob == [circuit |-> NoCircuit, shots |-> 0, executed |-> 0, tally |-> EmptyBag]

NoResult == [success |-> FALSE, tally |-> EmptyBag]

Init ==
  /\ script \in Scripts
  /\ pc = FirstLine(script)
  /\ status = "running"
  /\ exc = ""
  /\ caught = <<>>
  /\ circuit = [v \in CircuitVars |-> NoCircuit]
  /\ simulator = ""
  /\ num_shots = 0
  /\ transpiled = [v \in CircuitVars |-> NoCircuit]
  /\ job = [v \in CircuitVars |-> NoJob]
  /\ result = [v \in CircuitVars |-> NoResult]
  /\ counts = [v \in CircuitVars |-> EmptyBag]
  /\ figure = [v \in CircuitVars |-> "none"]
  /\ stdout = <<>>
  /\ trace = <<>>
  /\ access = {}

\* The statement about to run.
S == Program(script)[pc]

Ready == status = "running" /\ pc # 0

\* The names a statement reads and the names it binds or mutates.
Reads(st) ==
  CASE st.op \in {"h", "cx", "measure"} -> {VarName[st.var].circuit}
    [] st.op = "transpile" -> {VarName[st.var].circuit, "simulator"}
    [] st.op = "run" -> {"simulator", VarName[st.var].transpiled, "num_shots"}
    [] st.op = "result" -> {VarName[st.var].job}
    [] st.op = "get_counts" -> {VarName[st.var].result, VarName[st.var].circuit}
    [] st.op = "plot_histogram" -> {VarName[st.var].counts}
    [] st.op = "print" /\ st.what = "diagram" -> {VarName[st.var].circuit}
    [] st.op = "print" /\ st.what = "counts_header" -> {"num_shots"}
    [] st.op = "print" /\ st.what = "counts" -> {VarName[st.var].counts}
    [] OTHER -> {}

Writes(st) ==
  CASE st.op \in {"new", "h", "cx", "measure"} -> {VarName[st.var].circuit}
    [] st.op = "get_backend" -> {"simulator"}
    [] st.op = "assign_shots" -> {"num_shots"}
    [] st.op = "transpile" -> {VarName[st.var].transpiled}
    [] st.op = "run" -> {VarName[st.var].job}
    [] st.op = "result" -> {VarName[st.var].result}
    [] st.op = "get_counts" -> {VarName[st.var].counts}
    [] st.op = "plot_histogram" -> {VarName[st.var].figure}
    [] OTHER -> {}

Accesses(st) ==
       {[by |-> st.pipe, name |-> n, kind |-> "r"] : n \in Reads(st)}
  \cup {[by |-> st.pipe, name |-> n, kind |-> "w"] : n \in Writes(st)}

\* The names bound so far.
Bound == {a.name : a \in {x \in access : x.kind = "w"}}

\* Reading an unbound name raises NameError.
Readable == Reads(S) \subseteq Bound

\* The statement completes and control moves to the next one.
Complete ==
  /\ pc' = S.next
  /\ trace' = Append(trace, [line |-> pc, pipe |-> S.pipe, op |-> S.op,
                            var |-> S.var, what |-> S.what])
  /\ access' = access \cup Accesses(S)
  /\ UNCHANGED <<script, status, exc, caught>>

\* Raise with the try/except taken away: every exception is fatal.
RaiseUnguarded(x) ==
  /\ status' = "error"
  /\ exc' = x
  /\ UNCHANGED <<script, trace, pc, caught, access>>

\* Raise with every exception swallowed: the next statement runs.
RaiseSwallowed(x) ==
  /\ pc' = S.next
  /\ caught' = Append(caught, x)
  /\ UNCHANGED <<script, trace, status, exc, access>>

\* The statement raises x: an enclosing try hands control to its except
\* clause, which binds the exception to e for the length of the clause (caught
\* keeps it); otherwise the interpreter ends the run with a traceback.
Raise(x) ==
  /\ UNCHANGED <<script, trace>>
  /\ IF S.handler # 0
     THEN /\ pc' = S.handler
          /\ caught' = Append(caught, x)
          /\ UNCHANGED <<status, exc, access>>
     ELSE /\ status' = "error"
          /\ exc' = x
          /\ UNCHANGED <<pc, caught, access>>

Fail(x) == Raise(x) /\ UNCHANGED data

\* qc = QuantumCircuit(n, n)
NewCircuit ==
  /\ Ready /\ S.op = "new"
  /\ circuit' = [circuit EXCEPT ![S.var] = QuantumCircuit(S.n, S.n)]
  /\ Complete
  /\ UNCHANGED <<simulator, num_shots, transpiled, job, result, counts, figure,
                 stdout>>

\* qc.h(q), qc.cx(c, t): an index outside the circuit raises CircuitError.
ApplyGate ==
  /\ Ready /\ S.op \in {"h", "cx"}
  /\ IF ~Readable THEN Fail("NameError")
     ELSE IF ~InRange(S.qs, circuit[S.var].num_qubits) THEN Fail("CircuitError")
     ELSE /\ circuit' = [circuit EXCEPT ![S.var] = AppendGate(@, S.op, S.qs)]
          /\ Complete
          /\ UNCHANGED <<simulator, num_shots, transpiled, job, result, counts,
                         figure, stdout>>

\* qc.measure(qubits, clbits)
Measure ==
  /\ Ready /\ S.op = "measure"
  /\ IF ~Readable THEN Fail("NameError")
     ELSE IF \/ ~InRange(S.qs, circuit[S.var].num_qubits)
             \/ ~InRange(S.cs, circuit[S.var].num_clbits)
             \/ Len(S.qs) # Len(S.cs)
     THEN Fail("CircuitError")
     ELSE /\ circuit' = [circuit EXCEPT ![S.var] = AppendMeasure(@, S.qs, S.cs)]
          /\ Complete
          /\ UNCHANGED <<simulator, num_shots, transpiled, job, result, counts,
                         figure, stdout>>

\* simulator = Aer.get_backend('qasm_simulator')
GetBackend ==
  /\ Ready /\ S.op = "get_backend"
  /\ simulator' = "qasm_simulator"
  /\ Complete
  /\ UNCHANGED <<circuit, num_shots, transpiled, job, result, counts, figure,
                 stdout>>

\* num_shots = 1024
AssignShots ==
  /\ Ready /\ S.op = "assign_shots"
  /\ num_shots' = S.n
  /\ Complete
  /\ UNCHANGED <<circuit, simulator, transpiled, job, result, counts, figure,
                 stdout>>

\* transpiled_qc = transpile(qc, simulator): h, cx and measure are basis
\* instructions of the simulator, so the compiled circuit is a new circuit
\* with the same instructions.
Transpile ==
  /\ Ready /\ S.op = "transpile"
  /\ IF ~Readable THEN Fail("NameError")
     ELSE /\ transpiled' = [transpiled EXCEPT ![S.var] = circuit[S.var]]
          /\ Complete
          /\ UNCHANGED <<circuit, simulator, num_shots, job, result, counts,
                         figure, stdout>>

\* job = simulator.run(transpiled_qc, shots=num_shots): the job is submitted
\* and its shots run until job.result() returns.
Run ==
  /\ Ready /\ S.op = "run"
  /\ IF ~Readable THEN Fail("NameError")
     ELSE /\ job' = [job EXCEPT ![S.var] =
                       [circuit |-> transpiled[S.var], shots |-> num_shots,
                        executed |-> 0, tally |-> EmptyBag]]
          /\ Complete
          /\ UNCHANGED <<circuit, simulator, num_shots, transpiled, result,
                         counts, figure, stdout>>

\* One shot of the submitted job: one outcome of the circuit is tallied.
Shot ==
  /\ Ready /\ S.op = "result" /\ Readable
  /\ job[S.var].executed < job[S.var].shots
  /\ \E key \in Outcomes(job[S.var].circuit) :
       job' = [job EXCEPT ![S.var].executed = @ + 1,
                          ![S.var].tally = @ (+) SetToBag({key})]
  /\ UNCHANGED <<script, pc, status, exc, caught, circuit, simulator, num_shots,
                 transpiled, result, counts, figure, stdout, trace, access>>

\* Result that does not wait for the job to finish.
ResultEarly ==
  /\ Ready /\ S.op = "result"
  /\ result' = [result EXCEPT ![S.var] =
                  [success |-> TRUE, tally |-> job[S.var].tally]]
  /\ Complete
  /\ UNCHANGED <<circuit, simulator, num_shots, transpiled, job, counts,
                 figure, stdout>>

\* result = job.result(): returns once every shot has run.
Result ==
  /\ Ready /\ S.op = "result"
  /\ IF ~Readable THEN Fail("NameError")
     ELSE /\ job[S.var].executed = job[S.var].shots
          /\ result' = [result EXCEPT ![S.var] =
                          [success |-> TRUE, tally |-> job[S.var].tally]]
          /\ Complete
          /\ UNCHANGED <<circuit, simulator, num_shots, transpiled, job, counts,
                         figure, stdout>>

\* GetCounts that assigns to counts whatever circuit it is asked about.
GetCountsIntoCounts ==
  /\ Ready /\ S.op = "get_counts"
  /\ counts' = [counts EXCEPT !["qc"] = result[S.var].tally]
  /\ Complete
  /\ UNCHANGED <<circuit, simulator, num_shots, transpiled, job, result,
                 figure, stdout>>

\* counts = result.get_counts(qc)
GetCounts ==
  /\ Ready /\ S.op = "get_counts"
  /\ IF ~Readable THEN Fail("NameError")
     ELSE /\ counts' = [counts EXCEPT ![S.var] = result[S.var].tally]
          /\ Complete
          /\ UNCHANGED <<circuit, simulator, num_shots, transpiled, job, result,
                         figure, stdout>>

\* What a print statement writes: the diagram print carries the circuit's
\* instructions, the counts print the table, the warning the caught error.
Printed(st) ==
  [pipe |-> st.pipe, what |-> st.what,
   data |-> IF st.what = "diagram" THEN circuit[st.var].data ELSE <<>>,
   table |-> IF st.what = "counts" THEN counts[st.var] ELSE EmptyBag,
   text |-> IF st.what = "warning" THEN caught[Len(caught)] ELSE ""]

\* print(...)
PrintOut ==
  /\ Ready /\ S.op = "print"
  /\ IF ~Readable THEN Fail("NameError")
     ELSE /\ stdout' = Append(stdout, Printed(S))
          /\ Complete
          /\ UNCHANGED <<circuit, simulator, num_shots, transpiled, job, result,
                         counts, figure>>

\* fig = plot_histogram(counts, title=...)
PlotHistogram ==
  /\ Ready /\ S.op = "plot_histogram"
  /\ IF ~Readable THEN Fail("NameError")
     ELSE /\ figure' = [figure EXCEPT ![S.var] = "created"]
          /\ Complete
          /\ UNCHANGED <<circuit, simulator, num_shots, transpiled, job, result,
                         counts, stdout>>

\* plt.tight_layout()
TightLayout ==
  /\ Ready /\ S.op = "tight_layout"
  /\ figure' = [figure EXCEPT ![S.var] = "laid_out"]
  /\ Complete
  /\ UNCHANGED <<circuit, simulator, num_shots, transpiled, job, result, counts,
                 stdout>>

\* plt.show()
Show ==
  /\ Ready /\ S.op = "show"
  /\ figure' = [figure EXCEPT ![S.var] = "shown"]
  /\ Complete
  /\ UNCHANGED <<circuit, simulator, num_shots, transpiled, job, result, counts,
                 stdout>>

\* The exception a failing library call raises.
LibraryError(op) ==
  CASE op = "get_backend" -> "BackendUnavailable"
    [] op = "transpile" -> "TranspilerError"
    [] OTHER -> "SimulationError"

\* The backend cannot be resolved, or compiling or sampling fails.
LibraryRaises ==
  /\ Ready /\ S.op \in {"get_backend", "transpile", "run", "result"}
  /\ Fail(LibraryError(S.op))

\* plot_histogram, tight_layout or show fails (no display surface, ...).
VisualizationRaises ==
  /\ Ready /\ S.op \in {"plot_histogram", "tight_layout", "show"}
  /\ Fail("VisualizationFailure")

\* Control runs off the end of the file: the interpreter exits with status 0.
Exit ==
  /\ status = "running" /\ pc = 0
  /\ status' = "success"
  /\ UNCHANGED <<script, pc, exc, caught, circuit, simulator, num_shots,
                 transpiled, job, result, counts, figure, stdout, trace, access>>

Next ==
  \/ NewCircuit \/ ApplyGate \/ Measure \/ GetBackend \/ AssignShots
  \/ Transpile \/ Run \/ Shot \/ Result \/ GetCounts \/ PrintOut
  \/ PlotHistogram \/ TightLayout \/ Show
  \/ LibraryRaises \/ VisualizationRaises \/ Exit

Spec == Init /\ [][Next]_vars

\* The interpreter always goes on to the next statement, and a submitted job
\* runs its shots: a run that can take a step takes one.
FairSpec == Spec /\ WF_vars(Next)

-----------------------------------------------------------------------------
(* Properties *)

\* The gate and the measurement instructions of a circuit, in order.
IsGate(ins) == ins.name # "measure"
IsMeasure(ins) == ins.name = "measure"
Gates(circ) == SelectSeq(circ.data, IsGate)
Measures(circ) == SelectSeq(circ.data, IsMeasure)

\* The measure statement of circuit variable v has completed: v is built.
Constructed(v) ==
  \E i \in 1..Len(trace) : trace[i].op = "measure" /\ trace[i].var = v

\* Statement op has completed for circuit variable v.
Did(op, v) == \E i \in 1..Len(trace) : trace[i].op = op /\ trace[i].var = v

\* The GHZ recipe for width n: H(0), then CX(0, i) for i = 1..n-1.
GHZGates(n) ==
  [i \in 1..n |-> IF i = 1 THEN Instruction("h", <<0>>, <<>>)
                  ELSE Instruction("cx", <<0, i - 1>>, <<>>)]

AllZeros(n) == [i \in 1..n |-> 0]
AllOnes(n) == [i \in 1..n |-> 1]

\* Every table a pipeline holds or has printed for circuit variable v.
Tables(v) ==
  {job[v].tally, result[v].tally, counts[v]}
  \cup {stdout[i].table : i \in {j \in 1..Len(stdout) :
          stdout[j].what = "counts" /\ stdout[j].pipe = (IF v = "qc" THEN "bell" ELSE "ghz")}}

\* C1: every circuit a script has built, of width n >= 1, has exactly the
\* gates H(0), CX(0,1), ..., CX(0,n-1) in this order and no other gate; qc is
\* the width-2 Bell circuit H(0), CX(0,1) and qc_ghz the width-3 circuit
\* H(0), CX(0,1), CX(0,2) in both scripts.
C1_GateSequence ==
  /\ \A v \in CircuitVars :
       Constructed(v) =>
         /\ circuit[v].num_qubits >= 1
         /\ Gates(circuit[v]) = GHZGates(circuit[v].num_qubits)
  /\ Constructed("qc") => circuit["qc"].num_qubits = 2
  /\ Constructed("qc_ghz") => circuit["qc_ghz"].num_qubits = 3

C1_Witness ==
  /\ script = "two_qubit"
  /\ Constructed("qc") /\ Constructed("qc_ghz")
  /\ Gates(circuit["qc"]) =
       <<Instruction("h", <<0>>, <<>>), Instruction("cx", <<0, 1>>, <<>>)>>
  /\ Gates(circuit["qc_ghz"]) =
       <<Instruction("h", <<0>>, <<>>), Instruction("cx", <<0, 1>>, <<>>),
         Instruction("cx", <<0, 2>>, <<>>)>>

\* C2: a built circuit of width n has exactly n measurement bindings, the
\* i-th binding qubit i to classical slot i; every qubit and slot index of
\* every instruction is within 0..n-1, no slot is bound twice, and every
\* measurement comes after every gate.
C2_Measurements ==
  \A v \in CircuitVars :
    LET circ == circuit[v]
        n == circ.num_qubits
        ms == Measures(circ)
    IN /\ \A i \in 1..Len(circ.data) :
            /\ InRange(circ.data[i].qubits, n)
            /\ InRange(circ.data[i].clbits, circ.num_clbits)
       /\ \A i, j \in 1..Len(ms) : i # j => ms[i].clbits # ms[j].clbits
       /\ \A i, j \in 1..Len(circ.data) :
            (i < j /\ IsMeasure(circ.data[i])) => IsMeasure(circ.data[j])
       /\ Constructed(v) =>
            /\ n >= 1 /\ circ.num_clbits = n
            /\ Len(ms) = n
            /\ \A i \in 1..n :
                 ms[i].qubits = <<i - 1>> /\ ms[i].clbits = <<i - 1>>

C2_Witness ==
  /\ script = "three_qubit" /\ status = "success"
  /\ Len(Measures(circuit["qc_ghz"])) = 3
  /\ Len(Gates(circuit["qc_ghz"])) = 3
  /\ IsMeasure(circuit["qc_ghz"].data[6])

\* C3: every key of every frequency table has all its bits equal: the keys
\* of the Bell tables are among "00", "11" and those of the GHZ tables among
\* "000", "111", while the shots run, in the result and in what is printed.
C3_KeysUniform ==
  /\ \A t \in Tables("qc") : BagToSet(t) \subseteq {AllZeros(2), AllOnes(2)}
  /\ \A t \in Tables("qc_ghz") : BagToSet(t) \subseteq {AllZeros(3), AllOnes(3)}

C3_Witness ==
  /\ status = "success"
  /\ BagToSet(counts["qc"]) = {<<0, 0>>, <<1, 1>>}
  /\ BagToSet(counts["qc_ghz"]) = {<<0, 0, 0>>, <<1, 1, 1>>}
  /\ \E i \in 1..Len(stdout) : stdout[i].table = counts["qc_ghz"] /\ stdout[i].what = "counts"

\* C4: while a job runs, the counts of its table sum to the number of shots
\* executed so far, which never exceeds the configured shot count; the table
\* of a returned result, the counts dictionary and the printed table each sum
\* to the configured shot count num_shots.
C4_CountsSum ==
  \A v \in CircuitVars :
    /\ BagCardinality(job[v].tally) = job[v].executed
    /\ job[v].executed <= job[v].shots
    /\ Did("run", v) => job[v].shots = num_shots /\ num_shots = MaxShots
    /\ Did("result", v) => BagCardinality(result[v].tally) = num_shots
    /\ Did("get_counts", v) => BagCardinality(counts[v]) = num_shots
    /\ \A t \in Tables(v) \ {job[v].tally, result[v].tally, counts[v]} :
         BagCardinality(t) = num_shots

C4_Witness ==
  /\ script = "two_qubit" /\ status = "success"
  /\ BagCardinality(counts["qc"]) = MaxShots
  /\ BagCardinality(counts["qc_ghz"]) = MaxShots
  /\ CopiesIn(<<1, 1, 1>>, counts["qc_ghz"]) = 1

\* The circuit variable a section of a script works on.
SectionVar(p) == IF p = "bell" THEN "qc" ELSE "qc_ghz"

\* The sections a script holds.
SectionsOf(s) == IF s = "two_qubit" THEN {"bell", "ghz"} ELSE {"ghz"}

VizOps == {"plot_histogram", "tight_layout", "show"}

LibraryErrors == {"BackendUnavailable", "TranspilerError", "SimulationError"}

\* Section p has printed the diagram of its circuit and then its table.
Reported(p) ==
  \E i, j \in 1..Len(stdout) :
    /\ i < j
    /\ stdout[i].pipe = p /\ stdout[i].what = "diagram"
    /\ stdout[i].data = circuit[SectionVar(p)].data
    /\ stdout[j].pipe = p /\ stdout[j].what = "counts"
    /\ stdout[j].table = counts[SectionVar(p)]
    /\ BagCardinality(stdout[j].table) > 0

\* Section p has printed a diagram or a table.
ReportedAny(p) ==
  \E i \in 1..Len(stdout) :
    stdout[i].pipe = p /\ stdout[i].what \in {"diagram", "counts"}

Warnings == SelectSeq(stdout, LAMBDA o : o.what = "warning")

C5_Safe ==
  \* no visualization failure is ever propagated
  /\ exc # "VisualizationFailure"
  \* the diagram and the table are printed before visualization is attempted
  /\ (Ready /\ S.op \in VizOps) => Reported(S.pipe)
  /\ \A i \in 1..Len(trace) : trace[i].op \in VizOps => Reported(trace[i].pipe)
  \* each caught failure is reported as one printed warning
  /\ Len(Warnings) <= Len(caught)
  /\ \A i \in 1..Len(Warnings) : Warnings[i].text = "VisualizationFailure"
  /\ status = "success" => Len(Warnings) = Len(caught)
  \* a run that ends with success has reported every pipeline of the script
  /\ status = "success" => \A p \in SectionsOf(script) : Reported(p)

C5_Failed == caught # <<>>

C5_Ended ==
  \/ status = "success"
  \/ status = "error" /\ exc \in LibraryErrors /\ script = "two_qubit"
       /\ S.pipe = "ghz"

\* C5: a failure of plot_histogram, tight_layout or show is never propagated
\* and never keeps the table from being printed: the diagram and the table
\* are printed before visualization is attempted, each failure is reported as
\* a printed warning, and after a failure the run goes on and ends with
\* success, unless a later pipeline's own compile or sampling step fails.
C5_VisualizationNonFatal == []C5_Safe /\ (C5_Failed ~> C5_Ended)

C5_Witness ==
  /\ script = "two_qubit" /\ status = "success"
  /\ caught = <<"VisualizationFailure", "VisualizationFailure">>
  /\ Len(Warnings) = 2
  /\ figure["qc"] = "none" /\ figure["qc_ghz"] = "laid_out"
  /\ Reported("bell") /\ Reported("ghz")

C7_Inv ==
  /\ status = "error" <=> exc # ""
  /\ status = "error" =>
       /\ exc \in LibraryErrors
       /\ S.op \in {"get_backend", "transpile", "run", "result"}
       \* nothing is reported for the pipeline that failed
       /\ ~ReportedAny(S.pipe)
       /\ figure[SectionVar(S.pipe)] = "none"
       \* no statement after the failing one has run
       /\ \A i \in 1..Len(trace) : trace[i].line < pc
  \* only visualization failures are ever caught
  /\ \A i \in 1..Len(caught) : caught[i] = "VisualizationFailure"
  \* whatever is reported was resolved, compiled and sampled without failure
  /\ \A p \in Sections :
       ReportedAny(p) =>
         /\ simulator = "qasm_simulator"
         /\ Did("transpile", SectionVar(p))
         /\ Did("run", SectionVar(p))
         /\ result[SectionVar(p)].success
         /\ Did("get_counts", SectionVar(p))

C7_Halted == status = "error" => UNCHANGED vars

\* C7: a failure to resolve the backend, to compile or to sample is fatal:
\* the run ends at the failing statement with the exception uncaught, no
\* diagram, table or histogram is reported for that pipeline, and no later
\* statement of the script runs.
C7_LibraryFailureFatal == []C7_Inv /\ [][C7_Halted]_vars

C7_Witness ==
  /\ script = "two_qubit" /\ status = "error" /\ exc = "SimulationError"
  /\ S.pipe = "ghz" /\ pc = 98
  /\ Reported("bell") /\ ~ReportedAny("ghz")
  /\ job["qc_ghz"].executed = 2

\* The unnormalised probability that a shot of circ yields key.
KeyWeight(circ, key) ==
  LET psi == StateVector(circ)
  IN SumWeights(psi,
       {b \in DOMAIN psi :
          Bitstring(Register([c \in 0..(circ.num_clbits - 1) |-> 0],
                             circ.data, b, 1), circ.num_clbits) = key})

\* All-zeros and all-ones each have probability exactly 1/2.
Balanced(circ) ==
  LET n == circ.num_clbits
  IN /\ KeyWeight(circ, AllZeros(n)) > 0
     /\ KeyWeight(circ, AllZeros(n)) = KeyWeight(circ, AllOnes(n))
     /\ 2 * KeyWeight(circ, AllZeros(n)) = Norm(StateVector(circ))
     /\ Outcomes(circ) = {AllZeros(n), AllOnes(n)}

Rank(e) ==
  CASE e.op = "new" -> 1
    [] e.op \in {"h", "cx"} -> 2
    [] e.op = "measure" -> 3
    [] e.op = "transpile" -> 4
    [] e.op = "run" -> 5
    [] e.op = "result" -> 6
    [] e.op = "get_counts" -> 7
    [] e.op = "print" /\ e.what = "diagram" -> 8
    [] e.op = "print" /\ e.what = "counts" -> 9
    [] OTHER -> 0

Times(r, v) ==
  Cardinality({i \in 1..Len(trace) : Rank(trace[i]) = r /\ trace[i].var = v})

C9_Inv ==
  /\ \A i, j \in 1..Len(trace) :
       (i < j /\ trace[i].var = trace[j].var
          /\ Rank(trace[i]) > 0 /\ Rank(trace[j]) > 0)
       => /\ Rank(trace[i]) <= Rank(trace[j])
          /\ Rank(trace[i]) = Rank(trace[j]) => Rank(trace[i]) = 2
  /\ \A v \in CircuitVars :
       /\ \A r \in {1, 3, 4, 5, 6, 7, 8, 9} : Times(r, v) <= 1
       /\ Did("transpile", v) =>
            IsMeasured(circuit[v]) /\ transpiled[v] = circuit[v]
       /\ Did("run", v) => job[v].circuit = transpiled[v]
       /\ Did("result", v) => result[v].tally = job[v].tally
       /\ Did("get_counts", v) => counts[v] = result[v].tally
  /\ status = "success" =>
       \A p \in SectionsOf(script) :
         \A r \in {1, 3, 4, 5, 6, 7, 8, 9} : Times(r, SectionVar(p)) = 1

C9_Frozen ==
  \A v \in CircuitVars :
    /\ IsMeasured(circuit[v]) => circuit'[v] = circuit[v]
    /\ Did("transpile", v) => transpiled'[v] = transpiled[v]
    /\ Did("get_counts", v) => counts'[v] = counts[v]

\* C9: each pipeline runs build, compile, sample, report in this order: its
\* circuit is created, measured, compiled, run, collected and reported exactly
\* once each, compilation sees the complete circuit, sampling the compiled
\* one, the diagram is printed before the table and both after sampling, and
\* the circuit is not changed once its measurements are appended.
C9_PipelineOrder == []C9_Inv /\ [][C9_Frozen]_vars

C9_Witness ==
  /\ script = "two_qubit" /\ status = "success"
  /\ \A v \in CircuitVars : \A r \in {1, 3, 4, 5, 6, 7, 8, 9} : Times(r, v) = 1
  /\ Times(2, "qc") = 2 /\ Times(2, "qc_ghz") = 3

\* The GHZ circuit as both scripts build it.
GHZ3 ==
  AppendMeasure(
    [QuantumCircuit(3, 3) EXCEPT !.data = GHZGates(3)], <<0, 1, 2>>, <<0, 1, 2>>)

\* C10 as stated: no name bound by one section of a script is read or
\* written by the other.
C10_NothingShared ==
  \A a, b \in access : a.name = b.name => a.by = b.by

C10_Inv ==
  \* the only names both sections touch are simulator and num_shots, which
  \* the first section binds and the other only reads
  /\ \A a, b \in access :
       (a.name = b.name /\ a.by # b.by) => a.name \in {"simulator", "num_shots"}
  /\ \A a \in access :
       (a.name \in {"simulator", "num_shots"} /\ a.kind = "w")
       => a.by = (IF script = "two_qubit" THEN "bell" ELSE "ghz")
  \* the GHZ section of the 2-qubit script starts only after the Bell section
  \* has sampled and reported without a fatal error
  /\ (script = "two_qubit" /\ \E i \in 1..Len(trace) : trace[i].pipe = "ghz")
       => result["qc"].success /\ Reported("bell")
  \* in either script the GHZ job samples the same circuit for the same shots
  /\ Did("run", "qc_ghz") =>
       job["qc_ghz"].circuit = GHZ3 /\ job["qc_ghz"].shots = MaxShots

C10_Frame ==
  /\ (Ready /\ S.pipe = "ghz" /\ script = "two_qubit") =>
       /\ circuit'["qc"] = circuit["qc"]
       /\ transpiled'["qc"] = transpiled["qc"]
       /\ job'["qc"] = job["qc"]
       /\ result'["qc"] = result["qc"]
       /\ counts'["qc"] = counts["qc"]
       /\ figure'["qc"] = figure["qc"]
       /\ UNCHANGED <<simulator, num_shots>>
  /\ (Ready /\ S.pipe = "bell") =>
       /\ circuit'["qc_ghz"] = circuit["qc_ghz"]
       /\ transpiled'["qc_ghz"] = transpiled["qc_ghz"]
       /\ job'["qc_ghz"] = job["qc_ghz"]
       /\ result'["qc_ghz"] = result["qc_ghz"]
       /\ counts'["qc_ghz"] = counts["qc_ghz"]
       /\ figure'["qc_ghz"] = figure["qc_ghz"]

\* C10 (amended): the GHZ section of the 2-qubit script reads the backend
\* handle and the shot count the Bell section bound, writes neither, and
\* starts only after the Bell section has ended without a fatal error; no
\* other name is touched by both sections, the statements of one section
\* leave the other's circuit, compiled circuit, job, result, table and figure
\* unchanged, and the GHZ job samples the same circuit for the same number of
\* shots in both scripts.
C10_SharedReadOnly == []C10_Inv /\ [][C10_Frame]_vars

C10_Witness ==
  /\ script = "two_qubit" /\ status = "success"
  /\ [by |-> "ghz", name |-> "simulator", kind |-> "r"] \in access
  /\ [by |-> "ghz", name |-> "num_shots", kind |-> "r"] \in access
  /\ Reported("bell") /\ Reported("ghz")
  /\ counts["qc"] # EmptyBag /\ counts["qc_ghz"] # EmptyBag

====
